---- MODULE Spec2Model ----
(***************************************************************************)
(* The breathing-exercise session engine of src/app.js: the `state`        *)
(* object, the handlers bound to the rendered controls (togglePlay,        *)
(* resetToStart, setExerciseType, the slider, the time-limit input, the    *)
(* presets) and the frame callback animate.                                *)
(*                                                                         *)
(* Time is counted in units of half a second (UnitsPerSecond = 2), the     *)
(* step of the finest slider (coherent breathing, 0.5 s): every phase      *)
(* duration of the catalogue is a whole number of units.  phaseTime,       *)
(* exhaleDuration, countdown, startTime and now are in units; totalTime is *)
(* in whole seconds, as Math.floor(totalElapsed) is in the source.         *)
(*                                                                         *)
(* Fields of `state` that only feed the drawing (pulseStartTime,           *)
(* devicePixelRatio, viewportWidth/Height, prefersReducedMotion) are not   *)
(* part of the model.  The tone is modelled by the number of playTone      *)
(* calls of the last handler and the number of oscillators they started.   *)
(* The screen wake lock is modelled by the `wakeLock` reference and by the *)
(* platform's side: the sentinels it holds and the promises of request()   *)
(* and release() that have not settled yet.  A lock the platform takes     *)
(* back on its own (page hidden) is not modelled.                          *)
(***************************************************************************)
EXTENDS Integers, Sequences, FiniteSets, TLC

VARIABLES
    state,                 \* the `state` object (src/app.js:62-84)
    now,                   \* last reading of performance.now(), in units
    pendingFrames,         \* number of frame callbacks requested and not yet run or cancelled
    animationFrameIdLive,  \* animationFrameId names a callback that is still pending
    progress,              \* progress passed to the last drawScene call, as <<numerator, denominator>>
    phaseSkipped,          \* history: some tick of this session jumped over a whole phase
    cuesRequested,         \* number of playTone calls made by the last handler
    tonesStarted,          \* number of oscillators started by the last handler
    wakeLock,              \* the `wakeLock` variable (src/app.js:145)
    navigatorWakeLock,     \* navigator.wakeLock: support, sentinels held, promises pending
    lastAction             \* history: the handler that ran last

vars == <<state, now, pendingFrames, animationFrameIdLive, progress, phaseSkipped,
          cuesRequested, tonesStarted, wakeLock, navigatorWakeLock, lastAction>>

-----------------------------------------------------------------------------
(* Bounds of the model *)

\* longest session the main specification follows, in units
MaxElapsed == 50
\* longest session followed when the callbacks are sparse, in units
MaxElapsedSparse == 280
\* longest session followed when the callbacks keep coming, in units
MaxElapsedLive == 270
\* largest gap between two frame callbacks, in units
MaxGap == 9
\* most promises of one kind (request, release) pending at a time
MaxPending == 2
\* most wake locks the platform grants at a time
MaxHeld == 2
\* most frame callbacks pending at a time when the handlers are called as commands
MaxLoops == 2
\* longest idle time between page load / the end of a session and the next start, in units
MaxIdle == 1

-----------------------------------------------------------------------------
(* Units *)

UnitsPerSecond == 2

Seconds(n) == n * UnitsPerSecond

\* n half-seconds (4.5 s is HalfSeconds(9))
HalfSeconds(n) == (n * UnitsPerSecond) \div 2

Null == -1

-----------------------------------------------------------------------------
(* Exercise catalogue *)

exerciseTypes ==
    [ box |->
        [ hasPhaseTimeSlider |-> TRUE,
          phaseTimeRange |-> [min |-> Seconds(3), max |-> Seconds(6),
                              step |-> Seconds(1), default |-> Seconds(4)] ],
      fourSevenEight |->
        [ hasPhaseTimeSlider |-> FALSE ],
      longExhale |->
        [ hasPhaseTimeSlider |-> TRUE,
          phaseTimeRange |-> [min |-> Seconds(6), max |-> Seconds(8),
                              step |-> Seconds(1), default |-> Seconds(6)] ],
      coherent |->
        [ hasPhaseTimeSlider |-> TRUE,
          phaseTimeRange |-> [min |-> HalfSeconds(9), max |-> Seconds(6),
                              step |-> HalfSeconds(1), default |-> Seconds(5)] ] ]

ExerciseKeys == {"box", "fourSevenEight", "longExhale", "coherent"}

Phase(n, d) == [name |-> n, duration |-> d]

getPhases(type, phaseTime, exhaleDuration) ==
    CASE type = "box" ->
            << Phase("Inhale", phaseTime), Phase("Hold", phaseTime),
               Phase("Exhale", phaseTime), Phase("Wait", phaseTime) >>
      [] type = "fourSevenEight" ->
            << Phase("Inhale", Seconds(4)), Phase("Hold", Seconds(7)),
               Phase("Exhale", Seconds(8)) >>
      [] type = "longExhale" ->
            << Phase("Inhale", Seconds(4)), Phase("Exhale", exhaleDuration) >>
      [] type = "coherent" ->
            << Phase("Inhale", phaseTime), Phase("Exhale", phaseTime) >>

getCurrentPhases(s) == getPhases(s.exerciseType, s.phaseTime, s.exhaleDuration)

RECURSIVE SumDurations(_)
SumDurations(phases) ==
    IF phases = <<>> THEN 0
    ELSE Head(phases).duration + SumDurations(Tail(phases))

getTotalCycleTime(s) == SumDurations(getCurrentPhases(s))

-----------------------------------------------------------------------------
(* Strings: the time-limit field is a string of characters *)

Digits == <<"0", "1", "2", "3", "4", "5", "6", "7", "8", "9">>

IsDigit(c) == \E i \in 1..Len(Digits) : Digits[i] = c

DigitValue(c) == (CHOOSE i \in 1..Len(Digits) : Digits[i] = c) - 1

\* e.target.value.replace(/[^0-9]/g, '')
StripNonDigits(raw) == SelectSeq(raw, IsDigit)

RECURSIVE LeadingDigits(_, _)
LeadingDigits(str, acc) ==
    IF str = <<>> \/ ~IsDigit(Head(str)) THEN acc
    ELSE LeadingDigits(Tail(str), acc * 10 + DigitValue(Head(str)))

\* parseInt on a string without sign or leading blanks (state.timeLimit holds
\* digits only): the number its leading digits spell, NaN when there are none
parseInt(str) ==
    IF str = <<>> \/ ~IsDigit(Head(str))
    THEN [isNaN |-> TRUE, value |-> 0]
    ELSE [isNaN |-> FALSE, value |-> LeadingDigits(str, 0)]

\* x || 0 for a number x: NaN and 0 are falsy
OrZero(x) == IF x.isNaN \/ x.value = 0 THEN 0 ELSE x.value

RECURSIVE toString(_)
toString(n) ==
    IF n < 10 THEN << Digits[n + 1] >>
    ELSE toString(n \div 10) \o << Digits[(n % 10) + 1] >>

\* Math.ceil of a time in units, as a time in units
Ceil(x) == ((x + UnitsPerSecond - 1) \div UnitsPerSecond) * UnitsPerSecond

\* Math.floor of a time in units, as a time in units
Floor(x) == (x \div UnitsPerSecond) * UnitsPerSecond

-----------------------------------------------------------------------------
(* The program as a whole: the `state` object and the other variables the  *)
(* handlers write.  Every handler is an operator from such a record to the *)
(* record after it has run.                                                *)

World ==
    [ state |-> state,
      pendingFrames |-> pendingFrames,
      idLive |-> animationFrameIdLive,
      progress |-> progress,
      cues |-> 0,
      tones |-> 0,
      wakeLock |-> wakeLock,
      navigator |-> navigatorWakeLock ]

\* drawScene({progress}): the model keeps the progress drawn last
drawScene(w, num, den) == [w EXCEPT !.progress = <<num, den>>]

\* a request for the next frame that is never made
requestAnimationFrameDropped(w) == w

requestAnimationFrame(w) ==
    [w EXCEPT !.pendingFrames = @ + 1, !.idLive = TRUE]

\* a cancel that is never made
cancelAnimationFrameOmitted(w) == w

\* cancelAnimationFrame(animationFrameId): no effect when the id is undefined
\* or names a callback that has already run or been cancelled
cancelAnimationFrame(w) ==
    IF w.idLive
    THEN [w EXCEPT !.pendingFrames = @ - 1, !.idLive = FALSE]
    ELSE w

\* the tail of render(): a session that is not playing is drawn at rest
render(w) ==
    IF ~w.state.isPlaying
    THEN drawScene(w, IF w.state.sessionComplete THEN 1 ELSE 0, 1)
    ELSE w

\* playTone(): returns at once when the sound is off
playTone(w) ==
    LET w1 == [w EXCEPT !.cues = @ + 1]
    IN  IF ~w1.state.soundEnabled THEN w1
        ELSE [w1 EXCEPT !.tones = @ + 1]

-----------------------------------------------------------------------------
(* Wake lock.  `wakeLock` is "null", or refers to a sentinel: "held" while  *)
(* the platform holds that lock, "released" once release() was called on it *)

\* requestWakeLock up to its await: the request is made, its promise pending
requestWakeLock(w) ==
    IF w.navigator.supported
    THEN [w EXCEPT !.navigator.requests = @ + 1]
    ELSE w

\* releaseWakeLock: release() gives the lock back; its then() runs later
releaseWakeLock(w) ==
    IF w.wakeLock # "null"
    THEN [w EXCEPT !.navigator.held = IF w.wakeLock = "held" THEN @ - 1 ELSE @,
                   !.navigator.releases = @ + 1,
                   !.wakeLock = "released"]
    ELSE w

-----------------------------------------------------------------------------
(* animate *)

\* now - state.startTime; null converts to 0
Elapsed(t, startTime) == IF startTime = Null THEN t ELSE t - startTime

\* the loop with <= for the upper end of a phase
RECURSIVE FindPhaseInclusive(_, _, _, _)
FindPhaseInclusive(phases, cycleElapsed, i, accumulatedTime) ==
    IF i >= Len(phases) THEN [newCount |-> 0, phaseStartTime |-> 0]
    ELSE IF cycleElapsed >= accumulatedTime
            /\ cycleElapsed <= accumulatedTime + phases[i + 1].duration
         THEN [newCount |-> i, phaseStartTime |-> accumulatedTime]
         ELSE FindPhaseInclusive(phases, cycleElapsed, i + 1,
                                 accumulatedTime + phases[i + 1].duration)

\* the loop of animate over the phases; i counts from 0 as in the source
RECURSIVE FindPhase(_, _, _, _)
FindPhase(phases, cycleElapsed, i, accumulatedTime) ==
    IF i >= Len(phases) THEN [newCount |-> 0, phaseStartTime |-> 0]
    ELSE IF cycleElapsed >= accumulatedTime
            /\ cycleElapsed < accumulatedTime + phases[i + 1].duration
         THEN [newCount |-> i, phaseStartTime |-> accumulatedTime]
         ELSE FindPhase(phases, cycleElapsed, i + 1,
                        accumulatedTime + phases[i + 1].duration)

\* the countdown without the display of a fractional duration
NewCountdownAlwaysCeil(currentPhaseDuration, phaseElapsed) ==
    Ceil(currentPhaseDuration - phaseElapsed)

NewCountdown(currentPhaseDuration, phaseElapsed) ==
    LET remaining == currentPhaseDuration - phaseElapsed
        hasHalfSecond == currentPhaseDuration % UnitsPerSecond # 0
    IN  IF hasHalfSecond /\ remaining > Floor(currentPhaseDuration)
        THEN currentPhaseDuration
        ELSE Ceil(remaining)

\* a limit read as seconds, without the factor of 60
TimeLimitSecondsUnscaled(timeLimit) == OrZero(parseInt(timeLimit))

\* parseInt(state.timeLimit) * 60 || 0, in seconds
TimeLimitSeconds(timeLimit) ==
    LET n == parseInt(timeLimit)
    IN  OrZero([isNaN |-> n.isNaN, value |-> n.value * 60])

\* if (state.timeLimit && !state.timeLimitReached && state.totalTime >= timeLimitSeconds)
ReachTimeLimit(s) ==
    IF s.timeLimit # <<>> /\ ~s.timeLimitReached
       /\ s.totalTime >= TimeLimitSeconds(s.timeLimit)
    THEN [s EXCEPT !.timeLimitReached = TRUE]
    ELSE s

\* a round counted at every change of phase
IsWraparoundAnyChange(previousCount, newCount, phases) ==
    previousCount # newCount

\* the last phase taken to be phases.length
IsWraparoundOffByOne(previousCount, newCount, phases) ==
    previousCount = Len(phases) /\ newCount = 0

\* previousCount === phases.length - 1 && newCount === 0
IsWraparound(previousCount, newCount, phases) ==
    previousCount = Len(phases) - 1 /\ newCount = 0

\* the test without the guard on the target
RoundTargetMetUnguarded(s) ==
    /\ s.exerciseType = "fourSevenEight"
    /\ s.completedRounds >= s.targetRounds

\* the test that lets the last round be counted without ending the session
RoundTargetMetStrict(s) ==
    /\ s.exerciseType = "fourSevenEight"
    /\ s.targetRounds > 0
    /\ s.completedRounds > s.targetRounds

\* state.exerciseType === 'fourSevenEight' && state.targetRounds > 0
\*   && state.completedRounds >= state.targetRounds
RoundTargetMet(s) ==
    /\ s.exerciseType = "fourSevenEight"
    /\ s.targetRounds > 0
    /\ s.completedRounds >= s.targetRounds

\* completion that leaves hasStarted set
CompleteSessionStillStarted(w) ==
    LET s1 == [w.state EXCEPT !.sessionComplete = TRUE,
                              !.isPlaying = FALSE]
        w1 == releaseWakeLock(cancelAnimationFrame([w EXCEPT !.state = s1]))
    IN  drawScene(w1, 1, 1)

\* completion that also clears the time-limit flag
CompleteSessionClearsFlag(w) ==
    LET s1 == [w.state EXCEPT !.sessionComplete = TRUE,
                              !.isPlaying = FALSE,
                              !.hasStarted = FALSE,
                              !.timeLimitReached = FALSE]
        w1 == releaseWakeLock(cancelAnimationFrame([w EXCEPT !.state = s1]))
    IN  drawScene(w1, 1, 1)

\* the body of either completion branch
CompleteSession(w) ==
    LET s1 == [w.state EXCEPT !.sessionComplete = TRUE,
                              !.isPlaying = FALSE,
                              !.hasStarted = FALSE]
        w1 == releaseWakeLock(cancelAnimationFrame([w EXCEPT !.state = s1]))
    IN  drawScene(w1, 1, 1)

\* the block run when the phase index has changed
PhaseChanged(w, previousCount, newCount, phases) ==
    LET wrap == IsWraparound(previousCount, newCount, phases)
        w0 == playTone(w)
        w1 == IF wrap
              THEN [w0 EXCEPT !.state.completedRounds = @ + 1]
              ELSE w0
        w2 == IF wrap /\ RoundTargetMet(w1.state)
              THEN CompleteSession(w1)
              ELSE w1
        w3 == IF wrap /\ w2.state.timeLimitReached
              THEN CompleteSession(w2)
              ELSE w2
    IN  w3

\* animate once it has found the session playing
animatePlaying(w, t) ==
    LET s == w.state
        phases == getCurrentPhases(s)
        totalCycleTime == getTotalCycleTime(s)
        totalElapsed == Elapsed(t, s.startTime)
        newTotalTime == totalElapsed \div UnitsPerSecond
        cycleElapsed == totalElapsed % totalCycleTime
        found == FindPhase(phases, cycleElapsed, 0, 0)
        newCount == found.newCount
        currentPhaseDuration == phases[newCount + 1].duration
        phaseElapsed == cycleElapsed - found.phaseStartTime
        newCountdown == NewCountdown(currentPhaseDuration, phaseElapsed)
        s1 == [s EXCEPT !.totalTime = newTotalTime]
        s2 == ReachTimeLimit(s1)
        previousCount == s2.count
        w1 == [w EXCEPT !.state = [s2 EXCEPT !.count = newCount]]
        w2 == IF newCount # previousCount
              THEN PhaseChanged(w1, previousCount, newCount, phases)
              ELSE w1
        w3 == [w2 EXCEPT !.state.countdown = newCountdown]
        w4 == drawScene(w3, phaseElapsed, currentPhaseDuration)
        \* needsRender is set by every change that render() shows
        w5 == IF w4.state # s THEN render(w4) ELSE w4
    IN  requestAnimationFrame(w5)

\* animate that asks for the next frame whether the session plays or not
animateRescheduling(w, t) ==
    IF ~w.state.isPlaying THEN requestAnimationFrame(w)
    ELSE animatePlaying(w, t)

animate(w, t) ==
    IF ~w.state.isPlaying THEN w
    ELSE animatePlaying(w, t)

-----------------------------------------------------------------------------
(* Handlers *)

\* the assignments shared by every path that puts the session at rest
FirstCountdown(s) == Ceil(getCurrentPhases(s)[1].duration)

togglePlay(w, t) ==
    LET s == [w.state EXCEPT !.isPlaying = ~@]
    IN  IF s.isPlaying
        THEN LET s1 == [s EXCEPT
                          !.hasStarted = TRUE,
                          !.totalTime = 0,
                          !.countdown = FirstCountdown(s),
                          !.count = 0,
                          !.sessionComplete = FALSE,
                          !.timeLimitReached = FALSE,
                          !.completedRounds = 0,
                          !.targetRounds =
                              IF s.exerciseType = "fourSevenEight" /\ s.timeLimit # <<>>
                              THEN OrZero(parseInt(s.timeLimit))
                              ELSE 0,
                          !.startTime = t]
             IN  render(requestWakeLock(animate(playTone([w EXCEPT !.state = s1]), t)))
        ELSE LET w1 == cancelAnimationFrame(w)
                 s1 == [s EXCEPT
                          !.totalTime = 0,
                          !.countdown = FirstCountdown(s),
                          !.count = 0,
                          !.sessionComplete = FALSE,
                          !.timeLimitReached = FALSE,
                          !.hasStarted = FALSE,
                          !.targetRounds = 0,
                          !.completedRounds = 0,
                          !.startTime = Null]
             IN  render(releaseWakeLock(drawScene([w1 EXCEPT !.state = s1], 0, 1)))

\* reset that leaves the time limit in place
resetToStartKeepsLimit(w) ==
    LET s == w.state
        s1 == [s EXCEPT
                 !.isPlaying = FALSE,
                 !.totalTime = 0,
                 !.countdown = FirstCountdown(s),
                 !.count = 0,
                 !.sessionComplete = FALSE,
                 !.timeLimitReached = FALSE,
                 !.hasStarted = FALSE,
                 !.startTime = Null,
                 !.targetRounds = 0,
                 !.completedRounds = 0]
        w1 == cancelAnimationFrame([w EXCEPT !.state = s1])
    IN  render(releaseWakeLock(drawScene(w1, 0, 1)))

resetToStart(w) ==
    LET s == w.state
        s1 == [s EXCEPT
                 !.isPlaying = FALSE,
                 !.totalTime = 0,
                 !.countdown = FirstCountdown(s),
                 !.count = 0,
                 !.sessionComplete = FALSE,
                 !.timeLimit = <<>>,
                 !.timeLimitReached = FALSE,
                 !.hasStarted = FALSE,
                 !.startTime = Null,
                 !.targetRounds = 0,
                 !.completedRounds = 0]
        w1 == cancelAnimationFrame([w EXCEPT !.state = s1])
    IN  render(releaseWakeLock(drawScene(w1, 0, 1)))

toggleSound(w) == render([w EXCEPT !.state.soundEnabled = ~@])

toggleCountdown(w) == render([w EXCEPT !.state.countdownEnabled = ~@])

handleTimeLimitChange(w, value) ==
    [w EXCEPT !.state.timeLimit = StripNonDigits(value)]

setExerciseType(w, type) ==
    LET exercise == exerciseTypes[type]
        s1 == [w.state EXCEPT !.exerciseType = type]
        s2 == IF exercise.hasPhaseTimeSlider
              THEN [s1 EXCEPT !.phaseTime = exercise.phaseTimeRange.default]
              ELSE s1
        s3 == IF type = "longExhale"
              THEN [s2 EXCEPT !.exhaleDuration = exercise.phaseTimeRange.default]
              ELSE s2
    IN  render([w EXCEPT !.state = s3])

\* the input listener of the phase-time slider
phaseTimeSliderInput(w, value) ==
    IF w.state.exerciseType = "longExhale"
    THEN [w EXCEPT !.state.exhaleDuration = value]
    ELSE [w EXCEPT !.state.phaseTime = value]

startWithPreset(w, minutes, t) ==
    LET s == w.state
        s1 == [s EXCEPT
                 !.timeLimit = toString(minutes),
                 !.targetRounds = 0,
                 !.completedRounds = 0,
                 !.isPlaying = TRUE,
                 !.totalTime = 0,
                 !.countdown = FirstCountdown(s),
                 !.count = 0,
                 !.sessionComplete = FALSE,
                 !.timeLimitReached = FALSE,
                 !.hasStarted = TRUE,
                 !.startTime = t]
    IN  render(requestWakeLock(animate(playTone([w EXCEPT !.state = s1]), t)))

startWithRounds(w, rounds, t) ==
    LET s == w.state
        s1 == [s EXCEPT
                 !.targetRounds = rounds,
                 !.completedRounds = 0,
                 !.timeLimit = <<>>,
                 !.isPlaying = TRUE,
                 !.totalTime = 0,
                 !.countdown = FirstCountdown(s),
                 !.count = 0,
                 !.sessionComplete = FALSE,
                 !.timeLimitReached = FALSE,
                 !.hasStarted = TRUE,
                 !.startTime = t]
    IN  render(requestWakeLock(animate(playTone([w EXCEPT !.state = s1]), t)))

-----------------------------------------------------------------------------
(* Settings persistence *)

\* what localStorage holds at startup: nothing, or settings saveSettings wrote
\* in an earlier visit
StoredSettings ==
    { {},
      { [soundEnabled |-> TRUE, countdownEnabled |-> FALSE,
         exerciseType |-> "coherent", phaseTime |-> HalfSeconds(11),
         exhaleDuration |-> Seconds(6)] },
      { [soundEnabled |-> FALSE, countdownEnabled |-> TRUE,
         exerciseType |-> "longExhale", phaseTime |-> Seconds(6),
         exhaleDuration |-> Seconds(7)] } }

loadSettings(s, stored) ==
    IF stored = {} THEN s
    ELSE LET settings == CHOOSE r \in stored : TRUE
         IN  [s EXCEPT
                !.soundEnabled = settings.soundEnabled,
                !.countdownEnabled = settings.countdownEnabled,
                !.exerciseType = IF settings.exerciseType \in ExerciseKeys
                                 THEN settings.exerciseType ELSE @,
                !.phaseTime = settings.phaseTime,
                !.exhaleDuration = settings.exhaleDuration]

-----------------------------------------------------------------------------
(* Initial state *)

InitialState ==
    [ isPlaying |-> FALSE,
      count |-> 0,
      countdown |-> Seconds(4),
      totalTime |-> 0,
      soundEnabled |-> FALSE,
      countdownEnabled |-> FALSE,
      timeLimit |-> <<>>,
      sessionComplete |-> FALSE,
      timeLimitReached |-> FALSE,
      phaseTime |-> Seconds(4),
      exhaleDuration |-> Seconds(6),
      exerciseType |-> "box",
      hasStarted |-> FALSE,
      startTime |-> Null,
      targetRounds |-> 0,
      completedRounds |-> 0 ]

\* the page after its script has run, on a platform with or without the
\* Wake Lock API
InitOn(supported) ==
    /\ \E stored \in StoredSettings : state = loadSettings(InitialState, stored)
    /\ now = 0
    /\ pendingFrames = 0
    /\ animationFrameIdLive = FALSE
    /\ progress = <<0, 1>>
    /\ phaseSkipped = FALSE
    /\ cuesRequested = 0
    /\ tonesStarted = 0
    /\ wakeLock = "null"
    /\ navigatorWakeLock = [supported |-> supported, held |-> 0,
                            requests |-> 0, releases |-> 0]
    /\ lastAction = "load"

\* a platform without the Wake Lock API: requestWakeLock only logs
Init == InitOn(FALSE)

\* a platform with the Wake Lock API
InitWake == InitOn(TRUE)

\* what localStorage may hold under the settings key when something other
\* than saveSettings of this version has written it: an unknown pattern, or
\* durations outside the range of the stored pattern
StoredContents ==
    StoredSettings \cup
    { { [soundEnabled |-> FALSE, countdownEnabled |-> FALSE,
         exerciseType |-> "triangle", phaseTime |-> Seconds(5),
         exhaleDuration |-> Seconds(6)] },
      { [soundEnabled |-> FALSE, countdownEnabled |-> FALSE,
         exerciseType |-> "box", phaseTime |-> 0,
         exhaleDuration |-> Seconds(6)] },
      { [soundEnabled |-> TRUE, countdownEnabled |-> FALSE,
         exerciseType |-> "box", phaseTime |-> Seconds(10),
         exhaleDuration |-> Seconds(6)] },
      { [soundEnabled |-> FALSE, countdownEnabled |-> TRUE,
         exerciseType |-> "longExhale", phaseTime |-> Seconds(6),
         exhaleDuration |-> Seconds(2)] },
      { [soundEnabled |-> FALSE, countdownEnabled |-> FALSE,
         exerciseType |-> "coherent", phaseTime |-> Seconds(4),
         exhaleDuration |-> Seconds(6)] } }

\* the script before its call of loadSettings()
InitScript ==
    /\ state = InitialState
    /\ now = 0
    /\ pendingFrames = 0
    /\ animationFrameIdLive = FALSE
    /\ progress = <<0, 1>>
    /\ phaseSkipped = FALSE
    /\ cuesRequested = 0
    /\ tonesStarted = 0
    /\ wakeLock = "null"
    /\ navigatorWakeLock = [supported |-> FALSE, held |-> 0,
                            requests |-> 0, releases |-> 0]
    /\ lastAction = "script"

-----------------------------------------------------------------------------
(* Inputs *)

\* values typed into the time-limit field
TypedValues == { <<>>, <<"0">>, <<"1">>, <<"2">>, <<"-", "1">> }

\* the positions of the slider of an exercise
SliderValues(type) ==
    LET range == exerciseTypes[type].phaseTimeRange
    IN  { v \in range.min .. range.max : (v - range.min) % range.step = 0 }

PresetMinutes == {2, 5, 10}

\* gaps between the callbacks of a page that is hidden for a while: a little
\* less than a phase of coherent breathing at 5.5 s, that phase, and one whole
\* cycle of 4-7-8
SparseGaps == {HalfSeconds(11) - 1, HalfSeconds(11), Seconds(4 + 7 + 8)}

PresetRounds == {4, 6, 8}

\* the settings left on the page while a session plays
SettingsShownWhilePlaying == ~state.sessionComplete

\* the controls render() shows while the session is at rest
SettingsShown == ~state.isPlaying /\ ~state.sessionComplete

-----------------------------------------------------------------------------
(* Actions *)

Commit(w) ==
    \E after \in {w} :
        /\ state' = after.state
        /\ pendingFrames' = after.pendingFrames
        /\ animationFrameIdLive' = after.idLive
        /\ progress' = after.progress
        /\ cuesRequested' = after.cues
        /\ tonesStarted' = after.tones
        /\ wakeLock' = after.wakeLock
        /\ navigatorWakeLock' = after.navigator

\* no more request promises pending than the model follows
RequestsWithinBound == navigatorWakeLock.requests < MaxPending

\* no more release promises pending than the model follows
ReleasesWithinBound == navigatorWakeLock.releases < MaxPending

\* number of phases begun since the start of the session, less one
AbsolutePhase(s, elapsed) ==
    LET phases == getCurrentPhases(s)
        total == getTotalCycleTime(s)
    IN  (elapsed \div total) * Len(phases)
          + FindPhase(phases, elapsed % total, 0, 0).newCount

ToggleSound ==
    /\ SettingsShown
    /\ Commit(toggleSound(World))
    /\ UNCHANGED <<now, phaseSkipped>>
    /\ lastAction' = "setting"

ToggleCountdown ==
    /\ SettingsShown
    /\ Commit(toggleCountdown(World))
    /\ UNCHANGED <<now, phaseSkipped>>
    /\ lastAction' = "setting"

TimeLimitInput ==
    /\ SettingsShown
    /\ \E value \in TypedValues : Commit(handleTimeLimitChange(World, value))
    /\ UNCHANGED <<now, phaseSkipped>>
    /\ lastAction' = "setting"

SelectExercise ==
    /\ SettingsShown
    /\ \E type \in ExerciseKeys : Commit(setExerciseType(World, type))
    /\ UNCHANGED <<now, phaseSkipped>>
    /\ lastAction' = "setting"

SlidePhaseTime ==
    /\ SettingsShown
    /\ exerciseTypes[state.exerciseType].hasPhaseTimeSlider
    /\ \E value \in SliderValues(state.exerciseType) :
           Commit(phaseTimeSliderInput(World, value))
    /\ UNCHANGED <<now, phaseSkipped>>
    /\ lastAction' = "setting"

\* the toggle-play button while at rest
Start ==
    /\ ~state.sessionComplete
    /\ ~state.isPlaying
    /\ RequestsWithinBound
    /\ \E idle \in 0..MaxIdle :
           /\ now' = now + idle
           /\ Commit(togglePlay(World, now + idle))
    /\ phaseSkipped' = FALSE
    /\ lastAction' = "Start"

\* the toggle-play button while playing; the clock is not read again before
\* the next start, and the model counts time from that moment on
Pause ==
    /\ ~state.sessionComplete
    /\ state.isPlaying
    /\ ReleasesWithinBound
    /\ Commit(togglePlay(World, now))
    /\ now' = 0
    /\ phaseSkipped' = FALSE
    /\ lastAction' = "Pause"

PresetStart ==
    /\ SettingsShown
    /\ state.exerciseType # "fourSevenEight"
    /\ RequestsWithinBound
    /\ \E minutes \in PresetMinutes, idle \in 0..MaxIdle :
           /\ now' = now + idle
           /\ Commit(startWithPreset(World, minutes, now + idle))
    /\ phaseSkipped' = FALSE
    /\ lastAction' = "PresetStart"

RoundsStart ==
    /\ SettingsShown
    /\ state.exerciseType = "fourSevenEight"
    /\ RequestsWithinBound
    /\ \E rounds \in PresetRounds, idle \in 0..MaxIdle :
           /\ now' = now + idle
           /\ Commit(startWithRounds(World, rounds, now + idle))
    /\ phaseSkipped' = FALSE
    /\ lastAction' = "RoundsStart"

\* the reset button, shown once the session is complete
Reset ==
    /\ state.sessionComplete
    /\ ReleasesWithinBound
    /\ Commit(resetToStart(World))
    /\ now' = 0
    /\ phaseSkipped' = FALSE
    /\ lastAction' = "Reset"

\* the host takes one pending callback off its list: the one animationFrameId
\* names, or another one
TakeFrame(w, named) ==
    [w EXCEPT !.pendingFrames = @ - 1,
              !.idLive = IF named THEN FALSE ELSE @]

FrameChoices ==
    { named \in BOOLEAN :
        IF named THEN animationFrameIdLive
        ELSE pendingFrames > (IF animationFrameIdLive THEN 1 ELSE 0) }

\* a frame callback of a playing session, gap units after the last clock
\* reading, in a session followed for at most horizon units
TickBy(gaps, horizon) ==
    /\ state.isPlaying
    /\ ReleasesWithinBound
    /\ lastAction' = "Tick"
    /\ \E gap \in gaps, named \in FrameChoices :
           LET before == Elapsed(now, state.startTime)
               after == Elapsed(now + gap, state.startTime)
           IN  /\ after <= horizon
               /\ now' = now + gap
               /\ Commit(animate(TakeFrame(World, named), now + gap))
               /\ phaseSkipped' =
                     (phaseSkipped
                        \/ AbsolutePhase(state, after) - AbsolutePhase(state, before) > 1)

\* callbacks in quick succession, or after a pause of the host of MaxGap units
Tick == TickBy({1, MaxGap}, MaxElapsed)

\* callbacks of a page that is shown only now and then
SparseTick == TickBy(SparseGaps, MaxElapsedSparse)

\* a frame callback that finds the session not playing: animate returns at once
StaleFrame ==
    /\ ~state.isPlaying
    /\ \E named \in FrameChoices : Commit(animate(TakeFrame(World, named), now))
    /\ UNCHANGED <<now, phaseSkipped>>
    /\ lastAction' = "StaleFrame"

Next ==
    \/ ToggleSound
    \/ ToggleCountdown
    \/ TimeLimitInput
    \/ SelectExercise
    \/ SlidePhaseTime
    \/ Start
    \/ Pause
    \/ PresetStart
    \/ RoundsStart
    \/ Reset
    \/ Tick
    \/ StaleFrame

Spec == Init /\ [][Next]_vars

\* the same program under sparse callbacks, followed over minutes
NextSparse ==
    \/ TimeLimitInput
    \/ SelectExercise
    \/ Start
    \/ SparseTick
    \/ StaleFrame

SpecSparse == Init /\ [][NextSparse]_vars

\* the promise of navigator.wakeLock.request settles: the lock is granted
\* and assigned to wakeLock, or the request is rejected and the error logged
AcquireSettles ==
    /\ navigatorWakeLock.requests > 0
    /\ \E granted \in BOOLEAN :
           LET w == [World EXCEPT !.navigator.requests = @ - 1]
           IN  IF granted
               THEN /\ navigatorWakeLock.held < MaxHeld
                    /\ Commit([w EXCEPT !.navigator.held = @ + 1,
                                        !.wakeLock = "held"])
               ELSE Commit(w)
    /\ UNCHANGED <<now, phaseSkipped>>
    /\ lastAction' = "AcquireSettles"

\* the then() of wakeLock.release() runs
ReleaseSettles ==
    /\ navigatorWakeLock.releases > 0
    /\ Commit([World EXCEPT !.navigator.releases = @ - 1,
                            !.wakeLock = "null"])
    /\ UNCHANGED <<now, phaseSkipped>>
    /\ lastAction' = "ReleaseSettles"

\* frame callbacks MaxGap units apart
CoarseTick == TickBy({MaxGap}, MaxElapsed)

\* the program on a platform with the Wake Lock API
NextWake ==
    \/ TimeLimitInput
    \/ Start
    \/ Pause
    \/ Reset
    \/ CoarseTick
    \/ StaleFrame
    \/ AcquireSettles
    \/ ReleaseSettles

SpecWake == InitWake /\ [][NextWake]_vars

\* the preset handlers called while a session plays, which no control
\* rendered for a playing session does
PresetCommand ==
    /\ state.isPlaying
    /\ pendingFrames < MaxLoops
    /\ RequestsWithinBound
    /\ \E minutes \in PresetMinutes : Commit(startWithPreset(World, minutes, now))
    /\ UNCHANGED now
    /\ phaseSkipped' = FALSE
    /\ lastAction' = "PresetCommand"

RoundsCommand ==
    /\ state.isPlaying
    /\ pendingFrames < MaxLoops
    /\ RequestsWithinBound
    /\ \E rounds \in PresetRounds : Commit(startWithRounds(World, rounds, now))
    /\ UNCHANGED now
    /\ phaseSkipped' = FALSE
    /\ lastAction' = "RoundsCommand"

\* the handlers as commands of a host that does not go through the controls
NextCommands ==
    \/ SelectExercise
    \/ Start
    \/ Pause
    \/ CoarseTick
    \/ StaleFrame
    \/ PresetCommand
    \/ RoundsCommand

SpecCommands == Init /\ [][NextCommands]_vars

\* loadSettings() at startup, followed by the first render()
LoadSettings ==
    /\ lastAction = "script"
    /\ \E stored \in StoredContents :
           Commit(render([World EXCEPT !.state = loadSettings(state, stored)]))
    /\ UNCHANGED <<now, phaseSkipped>>
    /\ lastAction' = "LoadSettings"

\* the first render() has bound the controls
Rendered == lastAction # "script"

\* the settings of the page, from the start of its script on
NextStored ==
    \/ LoadSettings
    \/ Rendered /\ ToggleSound
    \/ Rendered /\ ToggleCountdown
    \/ Rendered /\ SelectExercise
    \/ Rendered /\ SlidePhaseTime

SpecStored == InitScript /\ [][NextStored]_vars

\* the largest gap that is shorter than the shortest phase of the
\* catalogue (4 s)
LiveGaps == {Seconds(4) - 1}

\* frame callbacks of a page that stays visible
LiveTick == TickBy(LiveGaps, MaxElapsedLive)

\* sessions that are left to run: no pause, no reset
NextLive ==
    \/ TimeLimitInput
    \/ SelectExercise
    \/ Start
    \/ LiveTick
    \/ StaleFrame

\* the host runs a requested frame callback sooner or later
SpecLive == Init /\ [][NextLive]_vars /\ WF_vars(LiveTick)

-----------------------------------------------------------------------------
(* Properties *)

\* time since the start of the session, in units
SessionElapsed == now - state.startTime

CurrentPhases == getCurrentPhases(state)

CycleLength == SumDurations(CurrentPhases)

\* accumulated start of phase i (counted from 0): the durations before it
RECURSIVE AccumulatedStart(_, _)
AccumulatedStart(phases, i) ==
    IF i = 0 THEN 0
    ELSE AccumulatedStart(phases, i - 1) + phases[i].duration

LastPhase == Len(CurrentPhases) - 1

\* C1: while a session plays, the phase index of the last tick is the first
\* phase i with S_i <= (t mod totalCycle) < S_i + duration_i, the progress
\* drawn is ((t mod totalCycle) - S_i) / duration_i and lies in [0, 1), and
\* at t = 0 the phase is 0 with progress 0.
C1_ActivePhase ==
    state.isPlaying =>
        LET pos == SessionElapsed % CycleLength
            i == state.count
            S == AccumulatedStart(CurrentPhases, i)
            d == CurrentPhases[i + 1].duration
        IN  /\ S <= pos /\ pos < S + d
            /\ \A j \in 0..(i - 1) :
                  ~ ( AccumulatedStart(CurrentPhases, j) <= pos
                      /\ pos < AccumulatedStart(CurrentPhases, j)
                                 + CurrentPhases[j + 1].duration )
            /\ progress = <<pos - S, d>>
            /\ 0 <= progress[1] /\ progress[1] < progress[2]
            /\ (SessionElapsed = 0 => state.count = 0 /\ progress[1] = 0)

\* a tick in the second cycle of coherent breathing at 4.5 s, inside the exhale
C1_Witness ==
    /\ state.isPlaying
    /\ state.exerciseType = "coherent"
    /\ state.phaseTime = HalfSeconds(9)
    /\ SessionElapsed > CycleLength
    /\ state.count = 1
    /\ progress[1] > 0

\* C2: in every reachable state the phase index is a valid index into the
\* phase sequence of the selected pattern.
C2_CountInRange ==
    /\ state.count >= 0
    /\ state.count < Len(getCurrentPhases(state))

\* the last phase of box breathing is active
C2_Witness ==
    /\ state.isPlaying
    /\ state.exerciseType = "box"
    /\ state.count = 3

\* C3: completedRounds changes only by +1, in a tick of a playing session in
\* which the phase index goes from the last phase to phase 0, or is set to 0.
C3_RoundsStep ==
    [][ state'.completedRounds # state.completedRounds =>
          \/ state'.completedRounds = 0
          \/ /\ state'.completedRounds = state.completedRounds + 1
             /\ state.isPlaying
             /\ now' > now
             /\ state'.startTime = state.startTime
             /\ state.count = LastPhase
             /\ state'.count = 0 ]_vars

\* a session that has counted two rounds
C3_Witness ==
    /\ state.isPlaying
    /\ state.completedRounds = 2

\* C4: when no tick of the session has jumped over a phase, completedRounds
\* is floor(elapsed / totalCycle) after every tick; for [Inhale(4), Exhale(6)]
\* the tick at t0 + 10 s leaves one completed round and phase 0.
C4_RoundsAreCycles ==
    (state.startTime # Null /\ ~phaseSkipped) =>
        /\ state.completedRounds = SessionElapsed \div CycleLength
        /\ ( /\ state.exerciseType = "longExhale"
             /\ state.exhaleDuration = Seconds(6)
             /\ SessionElapsed = Seconds(10) )
           => (state.completedRounds = 1 /\ state.count = 0)

\* long exhale at 6 s, ticked without a jump up to exactly 10 s
C4_Witness ==
    /\ state.isPlaying
    /\ ~phaseSkipped
    /\ state.exerciseType = "longExhale"
    /\ state.exhaleDuration = Seconds(6)
    /\ SessionElapsed = Seconds(10)
    /\ state.completedRounds = 1

\* a session on the round-based pattern with a round target
RoundTargetSession ==
    state.exerciseType = "fourSevenEight" /\ state.targetRounds > 0

\* C5: a session with a round target N > 0 becomes Complete at the tick that
\* detects the N-th wraparound and not before: while it plays fewer than N
\* rounds are counted, and once Complete completedRounds = N and isPlaying is
\* false.
C5_RoundTargetCompletion ==
    RoundTargetSession =>
        /\ state.isPlaying => state.completedRounds < state.targetRounds
        /\ state.sessionComplete =>
              /\ state.completedRounds = state.targetRounds
              /\ ~state.isPlaying

\* a session with a time limit on a pattern that is not round-based
TimeLimitSession ==
    /\ state.startTime # Null
    /\ state.exerciseType # "fourSevenEight"
    /\ state.timeLimit # <<>>

\* the limit in units
LimitUnits == Seconds(TimeLimitSeconds(state.timeLimit))

\* the first wraparound at or after the limit, as a number of cycles
DueCycle ==
    LET k == (LimitUnits + CycleLength - 1) \div CycleLength
    IN  IF k = 0 THEN 1 ELSE k

\* C6: in a time-limit session whose ticks jump over no phase, timeLimitReached
\* is true exactly from the first tick with floor(elapsed seconds) >= L on,
\* the session still plays before the wraparound at the smallest multiple of
\* the cycle length that is >= L, and it is Complete only from that wraparound.
C6_TimeLimitGrace ==
    (TimeLimitSession /\ ~phaseSkipped) =>
        /\ state.timeLimitReached
              <=> (SessionElapsed \div UnitsPerSecond >= TimeLimitSeconds(state.timeLimit))
        /\ state.sessionComplete <=> (SessionElapsed \div CycleLength >= DueCycle)
        /\ state.sessionComplete => SessionElapsed \div CycleLength = DueCycle

\* C7: sessionComplete becomes true only in a tick in which the phase index
\* wraps from the last phase to phase 0 and the round target is met or
\* timeLimitReached is true; a session with no target does not become Complete.
C7_CompleteOnlyAtWrap ==
    [][ (~state.sessionComplete /\ state'.sessionComplete) =>
          /\ state.isPlaying
          /\ now' > now
          /\ state.count = LastPhase
          /\ state'.count = 0
          /\ \/ ( state'.targetRounds > 0
                  /\ state'.completedRounds >= state'.targetRounds )
             \/ state'.timeLimitReached
          /\ (state.timeLimit # <<>> \/ state.targetRounds > 0) ]_vars

\* a session completed by its round target, its time limit not reached
C7_Witness ==
    /\ state.sessionComplete
    /\ state.targetRounds = 1
    /\ state.completedRounds = 1
    /\ ~state.timeLimitReached

\* C8: sessionComplete implies isPlaying = false and hasStarted = false.
C8_CompleteIsStopped ==
    state.sessionComplete => (~state.isPlaying /\ ~state.hasStarted)

\* a session completed by its time limit
C8_Witness ==
    /\ state.sessionComplete
    /\ state.timeLimitReached
    /\ state.exerciseType = "box"

\* C9: while a session plays, the time limit and the round target are not
\* both set, and a session on the round-based pattern has no time limit.
C9_OneTarget ==
    state.isPlaying =>
        /\ ~ (state.timeLimit # <<>> /\ state.targetRounds > 0)
        /\ state.exerciseType = "fourSevenEight" => state.timeLimit = <<>>

\* C10: timeLimitReached is true only in a session with a time limit on a
\* pattern that is not round-based.
C10_ReachedOnlyTimeBased ==
    state.timeLimitReached =>
        /\ state.exerciseType # "fourSevenEight"
        /\ state.timeLimit # <<>>

\* C11 as amended: once timeLimitReached is true it stays true under every
\* tick and under natural completion; it is set back to false only by
\* resetToStart and by pause (togglePlay while playing).
C11_ReachedUntilResetOrPause ==
    [][ (state.timeLimitReached /\ ~state'.timeLimitReached) =>
          lastAction' \in {"Reset", "Pause"} ]_vars

\* a session that has kept the flag over ticks into a later phase
C11_Witness ==
    /\ lastAction = "Tick"
    /\ state.isPlaying
    /\ state.timeLimitReached
    /\ state.count > 0

\* C11: once timeLimitReached is true it stays true under every action other
\* than resetToStart: no tick, pause or natural completion sets it to false.
C11_ReachedUntilReset ==
    [][ (state.timeLimitReached /\ ~state'.timeLimitReached) =>
          lastAction' = "Reset" ]_vars

\* the phase a playing session is in, counted from the start of the session,
\* when the clock reads t
PhaseAt(t) == AbsolutePhase(state, t - state.startTime)

\* C12: after every tick, with d the duration of the active phase and e the
\* time elapsed in it, the countdown is d when d is not a whole number of
\* seconds and d - e > floor(d), and ceil(d - e) otherwise; it is at least
\* 1 s, and it does not increase from one tick to the next within a phase.
C12_Countdown ==
    /\ [] ( state.isPlaying =>
              LET pos == SessionElapsed % CycleLength
                  d == CurrentPhases[state.count + 1].duration
                  e == pos - AccumulatedStart(CurrentPhases, state.count)
                  fraction == d % UnitsPerSecond
                  expected ==
                      IF fraction # 0 /\ d - e > d - fraction
                      THEN d
                      ELSE CHOOSE c \in { Seconds(k) : k \in 0..d } :
                               c >= d - e /\ c - Seconds(1) < d - e
              IN  /\ state.countdown = expected
                  /\ state.countdown >= Seconds(1) )
    /\ [][ ( /\ state.isPlaying /\ state'.isPlaying
              /\ state'.startTime = state.startTime
              /\ PhaseAt(now') = PhaseAt(now) )
            => state'.countdown <= state.countdown ]_vars

\* half a second into a phase of 4.5 s the countdown shows 4
C12_Witness ==
    /\ lastAction = "Tick"
    /\ state.isPlaying
    /\ CurrentPhases[state.count + 1].duration = HalfSeconds(9)
    /\ progress[1] = HalfSeconds(1)
    /\ state.countdown = Seconds(4)

\* the step is one of the three start actions
StartStep == lastAction' \in {"Start", "PresetStart", "RoundsStart"}

\* C13: every start action (togglePlay while idle, startWithPreset,
\* startWithRounds) yields a fresh session: isPlaying = hasStarted = true,
\* startTime = now, phase index 0, totalTime 0, completedRounds 0,
\* sessionComplete = timeLimitReached = false, the target set from the config
\* (a round target and no time limit on the round-based pattern, a time limit
\* and no round target on the others), and one audio cue requested.
C13_FreshSession ==
    [][ StartStep =>
          /\ state'.isPlaying /\ state'.hasStarted
          /\ state'.startTime = now'
          /\ state'.count = 0
          /\ state'.totalTime = 0
          /\ state'.completedRounds = 0
          /\ ~state'.sessionComplete
          /\ ~state'.timeLimitReached
          /\ IF state'.exerciseType = "fourSevenEight"
             THEN /\ state'.timeLimit = <<>>
                  /\ lastAction' = "Start" =>
                        state'.targetRounds = OrZero(parseInt(state.timeLimit))
                  /\ lastAction' = "RoundsStart" =>
                        state'.targetRounds \in PresetRounds
             ELSE /\ state'.targetRounds = 0
                  /\ lastAction' = "Start" => state'.timeLimit = state.timeLimit
                  /\ lastAction' = "PresetStart" =>
                        parseInt(state'.timeLimit).value \in PresetMinutes
          /\ cuesRequested' = 1 ]_vars

\* the settings of the session: pattern, phase durations and the two toggles
Config(s) ==
    << s.exerciseType, s.phaseTime, s.exhaleDuration,
       s.soundEnabled, s.countdownEnabled >>

\* C14: resetToStart returns to Idle with completedRounds = 0,
\* timeLimitReached = false, sessionComplete = false, targetRounds = 0,
\* totalTime = 0 and the time limit cleared, and leaves exerciseType,
\* phaseTime, exhaleDuration, soundEnabled and countdownEnabled as they were.
C14_ResetClearsRuntime ==
    [][ lastAction' = "Reset" =>
          /\ ~state'.isPlaying /\ ~state'.hasStarted
          /\ state'.startTime = Null
          /\ state'.count = 0
          /\ state'.completedRounds = 0
          /\ ~state'.timeLimitReached
          /\ ~state'.sessionComplete
          /\ state'.targetRounds = 0
          /\ state'.totalTime = 0
          /\ state'.timeLimit = <<>>
          /\ Config(state') = Config(state) ]_vars

\* the page after a reset of a session on a pattern other than the default,
\* with the sound on
C14_Witness ==
    /\ lastAction = "Reset"
    /\ state.exerciseType = "fourSevenEight"
    /\ state.soundEnabled
    /\ state.timeLimit = <<>>
    /\ ~state.sessionComplete

\* the round target the toggle-play button would start a session with
NextRoundTarget(s) == togglePlay([World EXCEPT !.state = s], 0).state.targetRounds

\* C15: pause (togglePlay while playing) leaves isPlaying = hasStarted = false
\* and startTime discarded, and leaves the config untouched: pattern, phase
\* durations, toggles, and the configured target (time limit or round
\* target), so that the next start has the target of the paused session.
C15_PauseKeepsConfig ==
    [][ lastAction' = "Pause" =>
          /\ ~state'.isPlaying /\ ~state'.hasStarted
          /\ state'.startTime = Null
          /\ Config(state') = Config(state)
          /\ state'.timeLimit = state.timeLimit
          /\ NextRoundTarget(state') = state.targetRounds ]_vars

\* C16: a frame callback that finds isPlaying false is a no-op: it changes
\* no field of the state, nothing drawn, no wake lock state, requests no
\* audio cue and schedules no further frame callback.
C16_IdleTickNoOp ==
    [][ lastAction' = "StaleFrame" =>
          /\ state' = state
          /\ progress' = progress
          /\ now' = now
          /\ wakeLock' = wakeLock
          /\ navigatorWakeLock' = navigatorWakeLock
          /\ cuesRequested' = 0
          /\ tonesStarted' = 0
          /\ pendingFrames' = pendingFrames - 1 ]_vars

\* the callback requested by the completing tick has run
C16_Witness ==
    /\ lastAction = "StaleFrame"
    /\ state.sessionComplete
    /\ pendingFrames = 0

Idle == ~state.isPlaying /\ ~state.sessionComplete

\* C18: after pause or reset no frame callback remains scheduled, and none
\* runs (to process a tick or to return at once) until the next start.
C18_LoopStopped ==
    /\ [] ( (lastAction \in {"Pause", "Reset"} \/ Idle) =>
               (pendingFrames = 0 /\ ~animationFrameIdLive) )
    /\ [][ Idle => lastAction' \notin {"Tick", "StaleFrame"} ]_vars

\* a session with a limit, paused
C18_Witness ==
    /\ lastAction = "Pause"
    /\ state.timeLimit # <<>>
    /\ pendingFrames = 0

\* no promise of request() or release() is pending
PromisesSettled ==
    navigatorWakeLock.requests = 0 /\ navigatorWakeLock.releases = 0

\* C19: once every pending promise has settled and the session is not
\* playing (after pause, reset or natural completion), the platform holds no
\* wake lock, referenced by wakeLock or not.
C19_WakeLockReleased ==
    (PromisesSettled /\ ~state.isPlaying) => navigatorWakeLock.held = 0

\* C20: while a session plays no step changes the config: exerciseType,
\* phaseTime, exhaleDuration, soundEnabled, countdownEnabled and the time
\* limit keep their values until the session has left Playing, so every tick
\* of a session uses the phase sequence resolved at its start.
C20_ConfigFixedWhilePlaying ==
    [][ state.isPlaying =>
          /\ Config(state') = Config(state)
          /\ state'.timeLimit = state.timeLimit
          /\ getCurrentPhases(state') = getCurrentPhases(state) ]_vars

\* a session with sound, countdown and a limit, in its second round
C20_Witness ==
    /\ lastAction = "Tick"
    /\ state.isPlaying
    /\ state.soundEnabled
    /\ state.countdownEnabled
    /\ state.timeLimit # <<>>
    /\ state.completedRounds >= 1

\* the duration the pattern of s takes from the settings lies in the range
\* the pattern declares
ParameterInRange(s) ==
    LET exercise == exerciseTypes[s.exerciseType]
        value == IF s.exerciseType = "longExhale" THEN s.exhaleDuration
                 ELSE s.phaseTime
    IN  exercise.hasPhaseTimeSlider =>
            /\ value >= exercise.phaseTimeRange.min
            /\ value <= exercise.phaseTimeRange.max

\* C21: in every state reached by a settings load at startup, pattern
\* selections and slider adjustments, the total cycle duration of the current
\* pattern is strictly positive and the duration the pattern consumes lies
\* within the range the pattern declares.
C21_CyclePositiveInRange ==
    /\ getTotalCycleTime(state) > 0
    /\ ParameterInRange(state)

\* the pattern, or a duration for it, that a config update must reject
Rejectable(settings) ==
    \/ settings.exerciseType \notin ExerciseKeys
    \/ ~ParameterInRange(settings)

\* exerciseType, phaseTime and exhaleDuration
PatternConfig(s) == << s.exerciseType, s.phaseTime, s.exhaleDuration >>

\* C22: a config update that carries an unknown pattern id or a duration
\* outside the range of its pattern is rejected: exerciseType, phaseTime and
\* exhaleDuration are left exactly as they were before the update.
C22_BadConfigRejected ==
    [][ lastAction' = "LoadSettings" =>
          \A stored \in StoredContents \ {{}} :
              LET settings == CHOOSE r \in stored : TRUE
              IN  ( state' = loadSettings(state, stored) /\ Rejectable(settings) )
                    => PatternConfig(state') = PatternConfig(state) ]_vars

\* whole cycles elapsed since the start of the session
CyclesElapsed == SessionElapsed \div CycleLength

\* C23 as amended: after each tick completedRounds is at most
\* floor(elapsed / totalCycle), whatever the gaps between the ticks, and
\* equals it when no tick of the session has jumped over a whole phase; a
\* round target N is then detected at the first tick at or after N cycles,
\* and timeLimitReached is set at the first tick at or after the limit
\* whatever the gaps.
C23_RoundsCountedWhenSeen ==
    state.startTime # Null =>
        /\ state.completedRounds <= CyclesElapsed
        /\ ~phaseSkipped => state.completedRounds = CyclesElapsed
        /\ (RoundTargetSession /\ ~phaseSkipped) =>
              (state.sessionComplete <=> CyclesElapsed >= state.targetRounds)
        /\ TimeLimitSession =>
              ( state.timeLimitReached
                  <=> SessionElapsed \div UnitsPerSecond
                        >= TimeLimitSeconds(state.timeLimit) )

\* a whole cycle has gone by between two ticks and was not counted
C23_Witness ==
    /\ lastAction = "Tick"
    /\ phaseSkipped
    /\ state.isPlaying
    /\ CyclesElapsed >= 2
    /\ state.completedRounds < CyclesElapsed

\* C23: for tick timestamps with no bound on the gap between consecutive
\* ticks, after each tick completedRounds equals floor(elapsed / totalCycle),
\* and a round target is detected at the first tick at or after its due
\* wraparound.
C23_RoundsCountedAnyGap ==
    state.startTime # Null =>
        /\ state.completedRounds = CyclesElapsed
        /\ RoundTargetSession =>
              (state.sessionComplete <=> CyclesElapsed >= state.targetRounds)

\* a playing session with a round target, or with a time limit on a pattern
\* that is not round-based
TargetSession ==
    /\ state.isPlaying
    /\ \/ RoundTargetSession
       \/ state.exerciseType # "fourSevenEight" /\ state.timeLimit # <<>>

\* C24: a session started with a target (a round target N > 0 on 4-7-8, or
\* a time limit on another pattern) whose frame callbacks keep firing, each
\* gap shorter than the shortest phase, and which is neither paused nor
\* reset, eventually is Complete: sessionComplete true and isPlaying false.
C24_EventuallyComplete ==
    TargetSession ~> (state.sessionComplete /\ ~state.isPlaying)

\* a box session with a limit of two minutes has run to its end
C24_Witness ==
    /\ lastAction = "Tick"
    /\ state.sessionComplete
    /\ ~state.isPlaying
    /\ state.exerciseType = "box"
    /\ state.timeLimit = <<"2">>
    /\ state.totalTime >= 120

\* both completion branches of animate were taken in the tick just made: the
\* session was playing before the tick, so it is complete only if the tick
\* saw a wraparound, and neither branch changes what the other one tests
BothBranchesTaken ==
    /\ lastAction = "Tick"
    /\ state.sessionComplete
    /\ RoundTargetMet(state)
    /\ state.timeLimitReached

\* C25: in no tick are both completion branches taken, the round-target
\* branch and the time-limit branch, for every typed target value and every
\* start path, when the ticks skip no phase.
C25_OneCompletionBranch == ~phaseSkipped => ~BothBranchesTaken

\* a session on 4-7-8 with a typed target of two rounds, whose typed value
\* is also a live time limit, ended by the round-target branch alone
C25_Witness ==
    /\ lastAction = "Tick"
    /\ ~phaseSkipped
    /\ state.sessionComplete
    /\ RoundTargetMet(state)
    /\ state.timeLimit = <<"2">>
    /\ ~state.timeLimitReached

\* C26: in every reachable state hasStarted equals isPlaying, and a playing
\* session has its startTime set: the two flags never differ after a start,
\* a pause, a reset, a tick or a completion.
C26_StartedIffPlaying ==
    /\ state.hasStarted = state.isPlaying
    /\ state.isPlaying => state.startTime # Null

\* the tick that completed a session has cleared both flags
C26_Witness ==
    /\ lastAction = "Tick"
    /\ state.sessionComplete
    /\ ~state.isPlaying
    /\ ~state.hasStarted

\* the k of "Round k of N" as render() writes it
RoundShown == state.completedRounds + 1

\* C27: while a session with a round target plays (4-7-8, targetRounds > 0)
\* completedRounds < targetRounds in every state between ticks, so the
\* "Round k of N" on display has 1 <= k = completedRounds + 1 <= N.
C27_RoundShownWithinTarget ==
    (state.isPlaying /\ RoundTargetSession) =>
        /\ state.completedRounds < state.targetRounds
        /\ 1 <= RoundShown
        /\ RoundShown <= state.targetRounds

\* the last round of a session of two rounds is on display
C27_Witness ==
    /\ lastAction = "Tick"
    /\ state.isPlaying
    /\ RoundTargetSession
    /\ state.completedRounds >= 1
    /\ RoundShown = state.targetRounds

\* at most one frame callback is scheduled, it is the one animationFrameId
\* names, and a playing session has one
OneLoop ==
    /\ pendingFrames <= 1
    /\ pendingFrames = 1 => animationFrameIdLive
    /\ state.isPlaying => pendingFrames = 1

\* a frame callback of a playing session is the only one scheduled, runs one
\* tick and leaves one callback scheduled
OneTickPerCallback ==
    lastAction' = "Tick" =>
        /\ pendingFrames = 1
        /\ animationFrameIdLive
        /\ pendingFrames' = 1

\* C28: at most one frame callback is scheduled at any time and one tick is
\* processed per callback, for every sequence of start, pause, reset, tick
\* and completion the rendered controls permit; the callback scheduled at the
\* end of the completing tick never runs beside the loop of a later session.
C28_SingleLoop == []OneLoop /\ [][OneTickPerCallback]_vars

\* the completing tick has left its callback scheduled
C28_Witness ==
    /\ lastAction = "Tick"
    /\ state.sessionComplete
    /\ ~state.isPlaying
    /\ pendingFrames = 1
    /\ animationFrameIdLive

====
